---- MODULE Spec2Model ----
(***************************************************************************)
(* A model of tvdb_api.py: the bounded show cache (ShowContainer), the     *)
(* Show / Season / Episode read paths, the population write path           *)
(* (_setShowData, _setItem, _getShowData) and the lookup entry point       *)
(* (Tvdb.__getitem__, _nameToSid).                                         *)
(*                                                                         *)
(* Python values are written as strings so that 1 and "1" are different    *)
(* keys, as they are in a Python dict: the int n is "#n", the str s is s   *)
(* (no str of the model starts with #) and None is "#None".  A dict is a   *)
(* function; a Show is a dict of seasons with a data attribute.            *)
(***************************************************************************)
EXTENDS Integers, Sequences, FiniteSets, TLC

\* ShowContainer.__setitem__: self._stack[:-100], self._stack[-100:]
Cap == 100
\* ShowContainer.__setitem__: time.time() - self._lastgc > 20
Debounce == 20
\* Bound: container insertions made in one session.
MaxInserts == 103
\* Bound: the identifiers a name search can select are the first NameIds ones.
NameIds == 2
\* Bound: the largest season or episode number, and the largest number read as a key
MaxNum == 3
\* Bound: the _setItem and _setShowData calls made on the write path on its own
MaxWrites == 4

VARIABLES
    shows,        \* Tvdb.shows: the dict part of the ShowContainer, sid -> Show
    stack,        \* Tvdb.shows._stack: the insertion-order ledger
    sinceGc,      \* time.time() - Tvdb.shows._lastgc, saturated above Debounce
    corrections,  \* Tvdb.corrections: show name -> sid
    last,         \* history: what the last operation did and returned
    inserts,      \* history: number of ShowContainer.__setitem__ calls so far
    recent,       \* history: the last Cap identifiers inserted, oldest first
    resolved,     \* history: name -> sid returned by its first successful _nameToSid
    used,         \* history: the number of distinct identifiers inserted so far
    read,         \* history: the last read of a Show, Season or Episode and its result
    callers       \* each caller's position in Tvdb.__getitem__ and its key

vars == <<shows, stack, sinceGc, corrections, last, inserts, recent, resolved, used,
          read, callers>>

(***************************************************************************)
(* Python values and dicts                                                 *)
(***************************************************************************)
JInt(n) == "#" \o ToString(n)
JStr(s) == s
JNone == "#None"
IsNone(v) == v = JNone

EmptyDict == [k \in {} |-> JNone]
Put(d, k, v) == [x \in DOMAIN d \cup {k} |-> IF x = k THEN v ELSE d[x]]
Remove(d, k) == [x \in DOMAIN d \ {k} |-> d[x]]
\* dict.get(k): None when the key is missing
Get(d, k) == IF k \in DOMAIN d THEN d[k] ELSE JNone

Range(s) == {s[i] : i \in DOMAIN s}
Max(a, b) == IF a >= b THEN a ELSE b
Min(a, b) == IF a <= b THEN a ELSE b
\* Python s[:-n] and s[-n:] for n > 0
DropLast(s, n) == SubSeq(s, 1, Max(Len(s) - n, 0))
TakeLast(s, n) == SubSeq(s, Max(Len(s) - n, 0) + 1, Len(s))

(***************************************************************************)
(* ShowContainer.  A container value c is                                  *)
(*   [d: the dict, stack: _stack, since: time.time() - _lastgc,            *)
(*    err: the exception raised, "" if none,                               *)
(*    swept: a sweep ran (history), ins: __setitem__ calls (history)]      *)
(***************************************************************************)
Expired_ge(since) == since >= Debounce
\* line 71: time.time() - self._lastgc > 20
Expired(since) == since > Debounce

Evicted_offbyone(s) == DropLast(s, Cap + 1)
Evicted_onemore(s) == DropLast(s, Cap - 1)
\* line 72: self._stack[:-100]
Evicted(s) == DropLast(s, Cap)

Kept_oldest(s) == SubSeq(s, 1, Min(Len(s), Cap))
\* line 74: self._stack[-100:]
Kept(s) == TakeLast(s, Cap)

\* lines 72-73: for o in ...: del self[o]; del raises KeyError on a missing key
RECURSIVE DelEach(_, _)
DelEach(d, os) ==
    IF os = <<>> THEN [d |-> d, ok |-> TRUE]
    ELSE IF Head(os) \notin DOMAIN d THEN [d |-> d, ok |-> FALSE]
    ELSE DelEach(Remove(d, Head(os)), Tail(os))

\* lines 67-78: ShowContainer.__setitem__
ContainerSetItem(c, key, value) ==
    LET s1 == Append(c.stack, key)
    IN  IF Expired(c.since)
        THEN LET r == DelEach(c.d, Evicted(s1))
             IN  IF r.ok
                 THEN [d |-> Put(r.d, key, value), stack |-> Kept(s1),
                       since |-> 0, err |-> "", swept |-> TRUE, ins |-> c.ins + 1]
                 ELSE [d |-> r.d, stack |-> s1, since |-> c.since,
                       err |-> "KeyError", swept |-> c.swept, ins |-> c.ins + 1]
        ELSE [c EXCEPT !.d = Put(c.d, key, value), !.stack = s1, !.ins = c.ins + 1]

(***************************************************************************)
(* Show, Season, Episode and the write path                                *)
(***************************************************************************)
\* lines 84-86: Show.__init__: an empty dict of seasons and an empty data dict.
\* A dict iterates in insertion order: keys is the <<season, episode>> pairs of
\* the show in the order their Episodes were created.  refs holds the
\* back-references: refs[seas].show is the show attribute of the Season (the key
\* of the Show it names) and refs[seas].episodes[ep] the season attribute of the
\* Episode (the <<show key, season key>> of the Season it names).
NewShow == [seasons |-> EmptyDict, data |-> EmptyDict, keys |-> << >>,
            refs |-> EmptyDict]
\* lines 185-188: Season.__init__: an empty dict of episodes
NewSeason == EmptyDict
\* lines 223-226: Episode.__init__: an empty dict of fields
NewEpisode == EmptyDict

\* lines 581-582 and 592-593: if sid not in self.shows: self.shows[sid] = Show()
EnsureShow(c, sid) ==
    IF sid \notin DOMAIN c.d THEN ContainerSetItem(c, sid, NewShow) ELSE c

\* line 594: self.shows[sid].data[key] = value, unless line 593 raised
SetData(c1, sid, key, value) ==
    IF c1.err # "" THEN c1
    ELSE [c1 EXCEPT !.d[sid].data = Put(@, key, value)]

\* lines 589-594: Tvdb._setShowData
SetShowData(c, sid, key, value) == SetData(EnsureShow(c, sid), sid, key, value)

SetSeasonField_replace(season, ep, attrib, value) ==
    Put(season, ep, Put(NewEpisode, attrib, value))
\* lines 585-587: the Episode is created when the season lacks it, then the field is set
SetSeasonField(season, ep, attrib, value) ==
    Put(season, ep, Put(IF ep \in DOMAIN season THEN season[ep] ELSE NewEpisode,
                        attrib, value))

\* lines 583-587: the Season is created when the show lacks it
SetShowField(seasons, seas, ep, attrib, value) ==
    Put(seasons, seas,
        SetSeasonField(IF seas \in DOMAIN seasons THEN seasons[seas] ELSE NewSeason,
                       ep, attrib, value))

\* line 584: Season(show=self.shows[sid]), when the show lacks the season
SeasonRef(refs, sid, seas) ==
    IF seas \in DOMAIN refs THEN refs
    ELSE Put(refs, seas, [show |-> sid, episodes |-> EmptyDict])
EpisodeRef_wrongseason(refs1, sid, seas, ep) ==
    IF ep \in DOMAIN refs1[seas].episodes THEN refs1
    ELSE [refs1 EXCEPT ![seas].episodes = Put(@, ep, <<sid, ep>>)]
\* line 586: Episode(season=self.shows[sid][seas]), when the season lacks the episode
EpisodeRef(refs1, sid, seas, ep) ==
    IF ep \in DOMAIN refs1[seas].episodes THEN refs1
    ELSE [refs1 EXCEPT ![seas].episodes = Put(@, ep, <<sid, seas>>)]
\* lines 583-586: the back-references of the Season and the Episode created
SetRefs(refs, sid, seas, ep) == EpisodeRef(SeasonRef(refs, sid, seas), sid, seas, ep)

\* lines 583-587, unless line 582 raised
SetField(c1, sid, seas, ep, attrib, value) ==
    IF c1.err # "" THEN c1
    ELSE [c1 EXCEPT !.d[sid].seasons = SetShowField(@, seas, ep, attrib, value),
                    !.d[sid].refs = SetRefs(@, sid, seas, ep),
                    !.d[sid].keys = IF <<seas, ep>> \in Range(@) THEN @
                                    ELSE Append(@, <<seas, ep>>)]

\* lines 566-587: Tvdb._setItem
SetItem(c, sid, seas, ep, attrib, value) ==
    SetField(EnsureShow(c, sid), sid, seas, ep, attrib, value)

(***************************************************************************)
(* The read path.  A result is [kind, err, value]: kind says what was      *)
(* found ("season", "data", "episode", "field"), err the exception raised. *)
(***************************************************************************)
\* isinstance(key, int)
IsInt(key) == key \in {JInt(n) : n \in 0 .. MaxNum}
\* key.isdigit() of a str
IsDigit(key) == key \in {JStr(ToString(n)) : n \in 0 .. MaxNum}

Raise(e) == [kind |-> "", err |-> e, value |-> ""]

ShowGetItem_seasonerror(show, key) ==
    IF key \in DOMAIN show.seasons
    THEN [kind |-> "season", err |-> "", value |-> show.seasons[key]]
    ELSE IF key \in DOMAIN show.data
    THEN [kind |-> "data", err |-> "", value |-> show.data[key]]
    ELSE Raise("tvdb_seasonnotfound")
ShowGetItem_nodata(show, key) ==
    IF key \in DOMAIN show.seasons
    THEN [kind |-> "season", err |-> "", value |-> show.seasons[key]]
    ELSE IF IsInt(key) \/ IsDigit(key)
    THEN Raise("tvdb_seasonnotfound")
    ELSE Raise("tvdb_attributenotfound")
\* lines 94-114: Show.__getitem__
ShowGetItem(show, key) ==
    IF key \in DOMAIN show.seasons
    THEN [kind |-> "season", err |-> "", value |-> show.seasons[key]]
    ELSE IF key \in DOMAIN show.data
    THEN [kind |-> "data", err |-> "", value |-> show.data[key]]
    ELSE IF IsInt(key) \/ IsDigit(key)
    THEN Raise("tvdb_seasonnotfound")
    ELSE Raise("tvdb_attributenotfound")

\* lines 195-199: Season.__getitem__
SeasonGetItem(season, episode_number) ==
    IF episode_number \notin DOMAIN season
    THEN Raise("tvdb_episodenotfound")
    ELSE [kind |-> "episode", err |-> "", value |-> season[episode_number]]

\* lines 237-241: Episode.__getitem__
EpisodeGetItem(episode, key) ==
    IF key \in DOMAIN episode
    THEN [kind |-> "field", err |-> "", value |-> episode[key]]
    ELSE Raise("tvdb_attributenotfound")

(***************************************************************************)
(* Search: Episode.search, Season.search, Show.search and Show.airedOn.    *)
(* A result is [err, value]; the value of a Season or Show search is the   *)
(* sequence of the <<season, episode>> keys of the Episodes returned.      *)
(***************************************************************************)
UpperLetters == "ABCDEFGHIJKLMNOPQRSTUVWXYZ"
LowerLetters == "abcdefghijklmnopqrstuvwxyz"
LowerMap ==
    [ch \in {SubSeq(UpperLetters, i, i) : i \in 1 .. Len(UpperLetters)} |->
        SubSeq(LowerLetters,
               CHOOSE j \in 1 .. Len(UpperLetters) : SubSeq(UpperLetters, j, j) = ch,
               CHOOSE j \in 1 .. Len(UpperLetters) : SubSeq(UpperLetters, j, j) = ch)]
LowerChar(ch) == IF ch \in DOMAIN LowerMap THEN LowerMap[ch] ELSE ch
\* str.lower()
RECURSIVE Lower(_)
Lower(s) ==
    IF Len(s) = 0 THEN ""
    ELSE LowerChar(SubSeq(s, 1, 1)) \o Lower(SubSeq(s, 2, Len(s)))

\* text_type(value): the decimal digits of an int, 'None' for None
Text(v) ==
    IF IsNone(v) THEN "None"
    ELSE IF Len(v) > 0 /\ SubSeq(v, 1, 1) = "#" THEN SubSeq(v, 2, Len(v))
    ELSE v

\* s.find(sub) > -1
Found(s, sub) ==
    \E i \in 0 .. Len(s) - Len(sub) : SubSeq(s, i + 1, i + Len(sub)) = sub

\* lines 272-276: the fields Episode.search compares, and the comparison
Searched(episode, key) ==
    {cur_key \in DOMAIN episode : IsNone(key) \/ Text(cur_key) = key}
Matches(episode, term, key) ==
    \E cur_key \in Searched(episode, key) :
       Found(Lower(Text(episode[cur_key])), Text(Lower(Text(term))))

\* lines 246-276: Episode.search; found says that self is returned, not None
EpisodeSearch(episode, term, key) ==
    IF IsNone(term) THEN [err |-> "TypeError", found |-> FALSE]
    ELSE [err |-> "", found |-> Matches(episode, term, key)]

\* lines 212-219: Season.search over the Episodes in self.values() order;
\* eps is the keys of the Episodes of the season, in that order
RECURSIVE SeasonSearch(_, _, _, _)
SeasonSearch(show, eps, term, key) ==
    IF eps = << >> THEN [err |-> "", value |-> << >>]
    ELSE LET searchresult ==
                 EpisodeSearch(show.seasons[Head(eps)[1]][Head(eps)[2]], term, key)
         IN  IF searchresult.err # "" THEN [err |-> searchresult.err, value |-> << >>]
             ELSE LET rest == SeasonSearch(show, Tail(eps), term, key)
                  IN  IF rest.err # "" THEN rest
                      ELSE IF searchresult.found
                      THEN [rest EXCEPT !.value = <<Head(eps)>> \o @]
                      ELSE rest

\* self.values() of a Show: the seasons in the order they were created
RECURSIVE SeasonOrder(_)
SeasonOrder(keys) ==
    IF keys = << >> THEN << >>
    ELSE <<Head(keys)[1]>>
         \o SeasonOrder(SelectSeq(Tail(keys), LAMBDA k : k[1] # Head(keys)[1]))

\* lines 175-181: Show.search over the given seasons
RECURSIVE SearchSeasons(_, _, _, _)
SearchSeasons(show, seasons, term, key) ==
    IF seasons = << >> THEN [err |-> "", value |-> << >>]
    ELSE LET searchresult ==
                 SeasonSearch(show, SelectSeq(show.keys, LAMBDA k : k[1] = Head(seasons)),
                              term, key)
         IN  IF searchresult.err # "" THEN searchresult
             ELSE LET rest == SearchSeasons(show, Tail(seasons), term, key)
                  IN  IF rest.err # "" THEN rest
                      ELSE [rest EXCEPT !.value = searchresult.value \o @]

\* lines 124-181: Show.search
ShowSearch(show, term, key) == SearchSeasons(show, SeasonOrder(show.keys), term, key)

\* The outcome of airedOn for the result ret of the search
AiredOnResult_noraise(ret) == ret
\* lines 118-122
AiredOnResult(ret) ==
    IF ret.err = "" /\ Len(ret.value) = 0
    THEN [err |-> "tvdb_episodenotfound", value |-> << >>]
    ELSE ret

\* lines 116-122: Show.airedOn
AiredOn(show, date) == AiredOnResult(ShowSearch(show, JStr(Text(date)), JStr("firstAired")))

(***************************************************************************)
(* Population: Tvdb._getShowData                                           *)
(***************************************************************************)
\* line 510: config['url_artworkPrefix'] % value
Artwork(v) == JStr("http://thetvdb.com/banners/" \o v)
\* line 752
ArtworkTags == {JStr("banner"), JStr("fanart"), JStr("poster")}

\* lines 747-755: every field of the series document goes to _setShowData
RECURSIVE SetSeriesInfo(_, _, _, _)
SetSeriesInfo(c, sid, doc, keys) ==
    IF keys = {} \/ c.err # "" THEN c
    ELSE LET tag == CHOOSE k \in keys : TRUE
             value == IF ~IsNone(doc[tag]) /\ tag \in ArtworkTags
                      THEN Artwork(doc[tag]) ELSE doc[tag]
         IN  SetSeriesInfo(SetShowData(c, sid, tag, value), sid, doc, keys \ {tag})

\* lines 798-804: every field of an episode item goes to _setItem
RECURSIVE SetEpisodeFields(_, _, _, _, _, _)
SetEpisodeFields(c, sid, seas_no, ep_no, cur_ep, keys) ==
    IF keys = {} \/ c.err # "" THEN c
    ELSE LET tag == CHOOSE k \in keys : TRUE
             value == IF ~IsNone(cur_ep[tag]) /\ tag = JStr("filename")
                      THEN Artwork(cur_ep[tag]) ELSE cur_ep[tag]
         IN  SetEpisodeFields(SetItem(c, sid, seas_no, ep_no, tag, value),
                              sid, seas_no, ep_no, cur_ep, keys \ {tag})

\* lines 774-778
UseDvd(cur_ep, dvdorder) ==
    /\ dvdorder
    /\ ~IsNone(Get(cur_ep, JStr("dvdSeason")))
    /\ ~IsNone(Get(cur_ep, JStr("dvdEpisodeNumber")))

\* lines 780-792: the numbers of an episode item, or the exception raised
EpisodeNumbers(cur_ep, dvdorder) ==
    IF UseDvd(cur_ep, dvdorder)
    THEN \* line 781; neither number is None here
         [err |-> "", seas |-> cur_ep[JStr("dvdSeason")],
          ep |-> cur_ep[JStr("dvdEpisodeNumber")]]
    ELSE IF ~({JStr("airedSeason"), JStr("airedEpisodeNumber")} \subseteq DOMAIN cur_ep)
    THEN \* line 783: cur_ep['airedSeason'] on a dict without the key
         [err |-> "KeyError", seas |-> JNone, ep |-> JNone]
    ELSE IF IsNone(cur_ep[JStr("airedSeason")]) \/ IsNone(cur_ep[JStr("airedEpisodeNumber")])
    THEN \* lines 786-792: the argument of log().debug calls cur_ep.getchildren(),
         \* and cur_ep is a dict
         [err |-> "AttributeError", seas |-> JNone, ep |-> JNone]
    ELSE [err |-> "", seas |-> cur_ep[JStr("airedSeason")],
          ep |-> cur_ep[JStr("airedEpisodeNumber")]]

\* lines 795-804: the fields of an item with numbers n
SetNumbered(c, sid, cur_ep, n) ==
    IF n.err # "" THEN [c EXCEPT !.err = n.err]
    ELSE SetEpisodeFields(c, sid, n.seas, n.ep, cur_ep, DOMAIN cur_ep)

\* lines 772-804: one episode item
SetEpisode(c, sid, cur_ep, dvdorder) ==
    SetNumbered(c, sid, cur_ep, EpisodeNumbers(cur_ep, dvdorder))

RECURSIVE SetEpisodes(_, _, _, _)
SetEpisodes(c, sid, epsEt, dvdorder) ==
    IF epsEt = <<>> \/ c.err # "" THEN c
    ELSE SetEpisodes(SetEpisode(c, sid, Head(epsEt), dvdorder), sid, Tail(epsEt), dvdorder)

\* lines 537-544: Tvdb._loadUrl: r.get('data') of a response with a single page
LoadUrl(response) == IF "data" \in DOMAIN response THEN <<response["data"]>> ELSE << >>

\* lines 765-804: the episodes of the show, unless the series part raised
GetEpisodes(c1, sid, epsEt, dvdorder) ==
    IF c1.err # "" THEN c1
    ELSE IF epsEt = << >>
    THEN \* line 772: for cur_ep in None
         [c1 EXCEPT !.err = "TypeError"]
    ELSE SetEpisodes(c1, sid, epsEt[1], dvdorder)

\* lines 742-755: the series document
GetSeries(c, sid, seriesInfoEt) ==
    IF seriesInfoEt = << >>
    THEN \* line 747: None.keys()
         [c EXCEPT !.err = "AttributeError"]
    ELSE SetSeriesInfo(c, sid, seriesInfoEt[1], DOMAIN seriesInfoEt[1])

\* The container c2 that the population of sid left, rolled back to c on failure
RolledBack(c, c2) == IF c2.err = "" THEN c2 ELSE [c EXCEPT !.err = c2.err]
GetShowData_rollback(c, sid, seriesResponse, epsResponse, dvdorder) ==
    RolledBack(c, GetEpisodes(GetSeries(c, sid, LoadUrl(seriesResponse)), sid,
                              LoadUrl(epsResponse), dvdorder))
\* lines 724-804: Tvdb._getShowData, banners and actors disabled (the defaults).
\* seriesResponse and epsResponse are the JSON bodies of the two responses;
\* a body without 'data' makes _loadUrl return None.
GetShowData(c, sid, seriesResponse, epsResponse, dvdorder) ==
    GetEpisodes(GetSeries(c, sid, LoadUrl(seriesResponse)), sid,
                LoadUrl(epsResponse), dvdorder)

(***************************************************************************)
(* Lookup: Tvdb._nameToSid and Tvdb.__getitem__.  A result is              *)
(*   [c: the container, corr: the corrections, sid, searches and fetches:  *)
(*    calls of search() and of _getShowData, rerr: what the search or the  *)
(*    population raised, err: what the lookup raised]                      *)
(* `selected` is the id of the series the UI selected among the search     *)
(* results (lines 596-634), 0 when the search returned none.               *)
(***************************************************************************)
\* The state in which Tvdb.__getitem__ reaches its return statement
Resolved(c1, corr, sid, searches, fetches) ==
    [c |-> c1, corr |-> corr, sid |-> sid, searches |-> searches, fetches |-> fetches,
     rerr |-> c1.err, err |-> c1.err]

\* lines 833 and 837: return self.shows[sid]
ReturnShow(r) ==
    [r EXCEPT !.err = IF r.rerr # "" THEN r.rerr
                      ELSE IF r.sid \notin DOMAIN r.c.d THEN "KeyError" ELSE ""]

NameToSid_nomemo(c, corr, name, selected, seriesResponse, epsResponse, dvdorder) ==
    IF selected = 0
    THEN [c |-> c, corr |-> corr, sid |-> 0, searches |-> 1, fetches |-> 0,
          rerr |-> "tvdb_shownotfound", err |-> "tvdb_shownotfound"]
    ELSE Resolved(GetShowData(c, selected, seriesResponse, epsResponse, dvdorder),
                  Put(corr, name, selected), selected, 1, 1)
NameToSid_record(c, corr, name, selected, seriesResponse, epsResponse, dvdorder) ==
    IF name \in DOMAIN corr
    THEN Resolved(c, corr, corr[name], 0, 0)
    ELSE IF selected = 0
    THEN [c |-> c, corr |-> Put(corr, name, selected), sid |-> 0, searches |-> 1,
          fetches |-> 0, rerr |-> "tvdb_shownotfound", err |-> "tvdb_shownotfound"]
    ELSE Resolved(GetShowData(c, selected, seriesResponse, epsResponse, dvdorder),
                  Put(corr, name, selected), selected, 1, 1)
NameToSid_recordafter(c, corr, name, selected, seriesResponse, epsResponse, dvdorder) ==
    IF name \in DOMAIN corr
    THEN Resolved(c, corr, corr[name], 0, 0)
    ELSE IF selected = 0
    THEN [c |-> c, corr |-> corr, sid |-> 0, searches |-> 1, fetches |-> 0,
          rerr |-> "tvdb_shownotfound", err |-> "tvdb_shownotfound"]
    ELSE Resolved(GetShowData(c, selected, seriesResponse, epsResponse, dvdorder),
                  IF GetShowData(c, selected, seriesResponse, epsResponse, dvdorder).err = ""
                  THEN Put(corr, name, selected) ELSE corr,
                  selected, 1, 1)
\* lines 806-823: Tvdb._nameToSid
NameToSid(c, corr, name, selected, seriesResponse, epsResponse, dvdorder) ==
    IF name \in DOMAIN corr
    THEN Resolved(c, corr, corr[name], 0, 0)
    ELSE IF selected = 0
    THEN \* lines 603-605
         [c |-> c, corr |-> corr, sid |-> 0, searches |-> 1, fetches |-> 0,
          rerr |-> "tvdb_shownotfound", err |-> "tvdb_shownotfound"]
    ELSE \* lines 816-821
         Resolved(GetShowData(c, selected, seriesResponse, epsResponse, dvdorder),
                  Put(corr, name, selected), selected, 1, 1)

GetItemInt_always(c, corr, key, seriesResponse, epsResponse, dvdorder) ==
    ReturnShow(Resolved(GetShowData(c, key, seriesResponse, epsResponse, dvdorder),
                        corr, key, 0, 1))
\* lines 829-833: Tvdb.__getitem__ with an integer key
GetItemInt(c, corr, key, seriesResponse, epsResponse, dvdorder) ==
    IF key \notin DOMAIN c.d
    THEN ReturnShow(Resolved(GetShowData(c, key, seriesResponse, epsResponse, dvdorder),
                             corr, key, 0, 1))
    ELSE ReturnShow(Resolved(c, corr, key, 0, 0))

\* A lookup that drops the correction of a name whose lookup raised
Forget(r, name) ==
    IF r.err = "" THEN r ELSE [r EXCEPT !.corr = [n \in DOMAIN r.corr \ {name} |-> r.corr[n]]]
GetItemName_forget(c, corr, name, selected, seriesResponse, epsResponse, dvdorder) ==
    Forget(ReturnShow(NameToSid(c, corr, name, selected, seriesResponse, epsResponse,
                                dvdorder)), name)
\* lines 835-837: Tvdb.__getitem__ with a name
GetItemName(c, corr, name, selected, seriesResponse, epsResponse, dvdorder) ==
    ReturnShow(NameToSid(c, corr, name, selected, seriesResponse, epsResponse, dvdorder))

(***************************************************************************)
(* The session: one Tvdb object, a clock, and the remote catalogue.        *)
(* Identifiers are numbered in the order of their first use (the code only *)
(* compares them for equality).                                            *)
(***************************************************************************)
Names == {"a", "b"}

\* The series response of the remote API for sid; without data when not `up`
RemoteSeries(sid, up) ==
    IF ~up THEN ("Error" :> JStr("Resource not found"))
    ELSE IF sid <= NameIds
    THEN "data" :> ((JStr("id") :> JInt(sid)) @@ (JStr("poster") :> JStr("p.jpg")))
    ELSE "data" :> (JStr("id") :> JInt(sid))
\* The episodes response of the remote API for sid
RemoteEpisodes(sid) ==
    IF sid <= NameIds
    THEN "data" :> << (JStr("airedSeason") :> JInt(1))
                      @@ (JStr("airedEpisodeNumber") :> JInt(sid))
                      @@ (JStr("filename") :> JStr("e.jpg")) >>
    ELSE "data" :> << >>

\* The identifiers the caller asks for and does not hold: the next unused one
\* and those evicted
AbsentKeys == {k \in 1 .. (used + 1) : k \notin DOMAIN shows}
\* Of the resident identifiers the caller asks for the oldest (reading any
\* resident entry has the same effect)
ResidentKeys == IF stack = << >> THEN {} ELSE {stack[1]}
\* The identifiers the search may select for a name
SelectedIds == 1 .. Min(NameIds, used + 1)

\* The container as __getitem__ finds it
Container == [d |-> shows, stack |-> stack, since |-> sinceGc,
              err |-> "", swept |-> FALSE, ins |-> 0]

\* The threads that call the session; one at a time unless said otherwise
Callers == {1, 2}
\* A caller that is not inside a call
Idle == [pc |-> "idle", key |-> 0]

NoRead == [op |-> "none", key |-> "", kind |-> "", err |-> "", value |-> ""]

NoOp == [op |-> "init", name |-> "", sid |-> 0, known |-> FALSE, resident |-> FALSE,
         searches |-> 0, fetches |-> 0, swept |-> FALSE, ins |-> 0,
         rerr |-> "", err |-> ""]

\* lines 399-400, 63-65: Tvdb.__init__ and ShowContainer.__init__
Init ==
    /\ shows = EmptyDict
    /\ stack = << >>
    /\ sinceGc = 0
    /\ corrections = EmptyDict
    /\ last = NoOp
    /\ inserts = 0
    /\ recent = << >>
    /\ resolved = EmptyDict
    /\ used = 0
    /\ read = NoRead
    /\ callers = [t \in Callers |-> Idle]

\* The effect of a lookup with result r on the session
Commit(r, op, name) ==
    /\ inserts + r.c.ins <= MaxInserts
    /\ shows' = r.c.d
    /\ stack' = r.c.stack
    /\ sinceGc' = r.c.since
    /\ corrections' = r.corr
    /\ read' = NoRead
    /\ UNCHANGED callers
    /\ inserts' = inserts + r.c.ins
    /\ used' = IF r.c.ins > 0 THEN Max(used, r.sid) ELSE used
    /\ recent' = IF r.c.ins > 0 THEN TakeLast(Append(recent, r.sid), Cap) ELSE recent
    /\ resolved' = IF op = "name" /\ r.rerr = "" /\ name \notin DOMAIN resolved
                   THEN Put(resolved, name, r.sid) ELSE resolved
    /\ last' = [op |-> op, name |-> name, sid |-> r.sid,
                known |-> name \in DOMAIN corrections,
                resident |-> r.sid \in DOMAIN shows,
                searches |-> r.searches, fetches |-> r.fetches,
                swept |-> r.c.swept, ins |-> r.c.ins, rerr |-> r.rerr, err |-> r.err]

\* Time passes between two operations: to the end of the debounce window, then
\* beyond it
Tick ==
    /\ sinceGc <= Debounce
    /\ sinceGc' = IF sinceGc < Debounce THEN Debounce ELSE Debounce + 1
    /\ last' = [NoOp EXCEPT !.op = "tick"]
    /\ UNCHANGED <<shows, stack, corrections, inserts, recent, resolved, used, read,
                   callers>>

\* t[key] with the integer key of a resident show (line 831 false)
LookupResident(key) ==
    /\ key \in DOMAIN shows
    /\ Commit(GetItemInt(Container, corrections, key,
                         RemoteSeries(key, TRUE), RemoteEpisodes(key), FALSE), "id", "")

\* t[key] with an integer key that is not resident (line 831 true); `up` is
\* whether the series response has data
LookupAbsent(key, up) ==
    /\ key \notin DOMAIN shows
    /\ Commit(GetItemInt(Container, corrections, key,
                         RemoteSeries(key, up), RemoteEpisodes(key), FALSE), "id", "")

\* t[name] with a name of the corrections (line 811 true)
LookupKnownName(name) ==
    /\ name \in DOMAIN corrections
    /\ Commit(GetItemName(Container, corrections, name, 0,
                          RemoteSeries(corrections[name], TRUE),
                          RemoteEpisodes(corrections[name]), FALSE), "name", name)

\* t[name] with a new name (line 811 false): the search selects `selected`
\* (0: it finds nothing)
LookupNewName(name, selected, up) ==
    /\ name \notin DOMAIN corrections
    /\ Commit(GetItemName(Container, corrections, name, selected,
                          RemoteSeries(selected, up), RemoteEpisodes(selected), FALSE),
              "name", name)

Next ==
    \/ Tick
    \/ \E key \in ResidentKeys : LookupResident(key)
    \/ \E key \in AbsentKeys, up \in BOOLEAN : LookupAbsent(key, up)
    \/ \E name \in Names : LookupKnownName(name)
    \/ \E name \in Names, selected \in {0} \cup SelectedIds, up \in BOOLEAN :
          LookupNewName(name, selected, up)

Spec == Init /\ [][Next]_vars

(***************************************************************************)
(* Reading a populated show: t[1] is populated from a series document and  *)
(* an episode list of the remote API, then read with t[1][key],            *)
(* t[1][season][episode] and t[1][season][episode][field].                 *)
(***************************************************************************)
\* The series documents of the remote API: some of these fields
SeriesDocs ==
    {[k \in ks |-> JStr("Scrubs")] : ks \in SUBSET {JStr("seriesName"), JStr("overview")}}
\* The episode items: aired numbers and, for some, a name
EpisodeItems ==
    {(JStr("airedSeason") :> JInt(s)) @@ (JStr("airedEpisodeNumber") :> JInt(e)) @@ f :
        s \in 1 .. MaxNum - 1, e \in 1 .. MaxNum - 1,
        f \in {EmptyDict, JStr("episodeName") :> JStr("My First Day")}}
EpisodeLists == {<< >>} \cup {<<i>> : i \in EpisodeItems}
                \cup {<<i, j>> : i \in EpisodeItems, j \in EpisodeItems}
\* The keys a consumer reads with: ints, digit strings and other strings
ReadKeys ==
    {JInt(n) : n \in 1 .. MaxNum} \cup {JStr(ToString(n)) : n \in 1 .. MaxNum}
    \cup {JStr("seriesName"), JStr("overview"), JStr("episodeName"),
          JStr("airedSeason"), JStr("missing")}

\* t[1] on the new session; the remote API answers with doc and eps
Populate(doc, eps) ==
    /\ 1 \notin DOMAIN shows
    /\ Commit(GetItemInt(Container, corrections, 1, "data" :> doc, "data" :> eps, FALSE),
              "id", "")

AfterRead_vivify(d, r) ==
    IF r.err = "tvdb_seasonnotfound"
    THEN [d EXCEPT ![1].seasons = Put(@, JInt(0), NewSeason)]
    ELSE d
\* The cache after a read with result r: the __getitem__ and search methods of
\* Show, Season and Episode assign nothing, and none of the classes has __missing__
AfterRead(d, r) == d

Reading(op, key, r) ==
    /\ read' = [op |-> op, key |-> key, kind |-> r.kind, err |-> r.err, value |-> r.value]
    /\ shows' = AfterRead(shows, r)
    /\ UNCHANGED <<stack, sinceGc, corrections, last, inserts, recent, resolved, used,
                   callers>>

\* t[1][key]
ReadShow(key) ==
    /\ 1 \in DOMAIN shows
    /\ Reading("show", key, ShowGetItem(shows[1], key))

\* t[1][seas][ep] for a season seas of the show
ReadSeason(ep) ==
    /\ 1 \in DOMAIN shows
    /\ \E seas \in DOMAIN shows[1].seasons :
          Reading("season", ep, SeasonGetItem(ShowGetItem(shows[1], seas).value, ep))

\* t[1][seas][ep][key] for an episode ep of a season seas of the show
ReadEpisode(key) ==
    /\ 1 \in DOMAIN shows
    /\ \E seas \in DOMAIN shows[1].seasons :
          \E ep \in DOMAIN ShowGetItem(shows[1], seas).value :
             Reading("episode", key,
                     EpisodeGetItem(
                         SeasonGetItem(ShowGetItem(shows[1], seas).value, ep).value, key))

NextRead ==
    \/ \E doc \in SeriesDocs, eps \in EpisodeLists : Populate(doc, eps)
    \/ \E key \in ReadKeys : ReadShow(key)
    \/ \E ep \in ReadKeys : ReadSeason(ep)
    \/ \E key \in ReadKeys : ReadEpisode(key)

SpecRead == Init /\ [][NextRead]_vars

(***************************************************************************)
(* Searching a populated show: t[1] is populated from an episode list of   *)
(* the remote API, then searched with t[1].search(term, key) and           *)
(* t[1].airedOn(date).                                                     *)
(***************************************************************************)
\* The episode items: aired numbers, a name and a first-aired date or null
SearchItems ==
    {(JStr("airedSeason") :> JInt(s)) @@ (JStr("airedEpisodeNumber") :> JInt(e))
       @@ (JStr("episodeName") :> n) @@ (JStr("firstAired") :> a) :
        s \in 1 .. 2, e \in 1 .. 2,
        n \in {JStr("My First Day"), JStr("My First Step")},
        a \in {JStr("2004-10-02"), JNone}}
\* The episode lists: no item, or one or two items in any order
SearchLists == {<< >>} \cup {<<i>> : i \in SearchItems}
               \cup {<<i, j>> : i \in SearchItems, j \in SearchItems}
\* The terms (None: no term given) and the keys (None: every field)
SearchTerms == {JNone, JStr("first"), JStr("FIRST DAY"), JStr("2004"), JStr("none"),
                JInt(1)}
SearchKeys == {JNone, JStr("episodeName"), JStr("firstAired")}
SearchDates == {JStr("2004-10-02"), JStr("2005-01-01")}

\* t[1].search(term, key)
SearchShow(term, key) ==
    /\ 1 \in DOMAIN shows
    /\ LET ret == ShowSearch(shows[1], term, key)
       IN  Reading("search", <<term, key>>,
                   [kind |-> "list", err |-> ret.err, value |-> ret.value])

\* t[1].airedOn(date)
AiredOnShow(date) ==
    /\ 1 \in DOMAIN shows
    /\ LET ret == AiredOn(shows[1], date)
       IN  Reading("airedOn", <<date, JStr("firstAired")>>,
                   [kind |-> "list", err |-> ret.err, value |-> ret.value])

NextSearch ==
    \/ \E eps \in SearchLists : Populate(JStr("seriesName") :> JStr("Scrubs"), eps)
    \/ \E term \in SearchTerms, key \in SearchKeys : SearchShow(term, key)
    \/ \E date \in SearchDates : AiredOnShow(date)

SpecSearch == Init /\ [][NextSearch]_vars

(***************************************************************************)
(* The write path on its own: _setItem and _setShowData are applied to the *)
(* show 1 of the session with numbers, field names and values of small     *)
(* sets, the way _getShowData applies them.                                *)
(***************************************************************************)
WriteNums == {JInt(1), JInt(2)}
WriteAttribs == {JStr("episodeName"), JStr("overview")}
WriteValues == {JStr("My First Day"), JNone}

\* The number of writes made so far
Writes == IF last.op = "init" THEN 0 ELSE last.n

\* The effect on the session of calls that left the container c; l is their
\* history record
Stored(c, l) ==
    /\ shows' = c.d
    /\ stack' = c.stack
    /\ sinceGc' = c.since
    /\ inserts' = inserts + c.ins
    /\ used' = IF c.ins > 0 THEN Max(used, l.sid) ELSE used
    /\ recent' = IF c.ins > 0 THEN TakeLast(Append(recent, l.sid), Cap) ELSE recent
    /\ last' = l
    /\ read' = NoRead
    /\ UNCHANGED <<corrections, resolved, callers>>

\* The effect of one more write
Written(c, l) == Writes < MaxWrites /\ Stored(c, l)

\* self._setItem(1, seas, ep, attrib, value)
DoSetItem(seas, ep, attrib, value) ==
    Written(SetItem(Container, 1, seas, ep, attrib, value),
            [op |-> "setitem", sid |-> 1, seas |-> seas, ep |-> ep,
             attrib |-> attrib, value |-> value, n |-> Writes + 1])

\* self._setShowData(1, key, value)
DoSetShowData(key, value) ==
    Written(SetShowData(Container, 1, key, value),
            [op |-> "setshowdata", sid |-> 1, seas |-> JNone, ep |-> JNone,
             attrib |-> key, value |-> value, n |-> Writes + 1])

NextWrite ==
    \/ \E seas \in WriteNums, ep \in WriteNums, attrib \in WriteAttribs,
          value \in WriteValues : DoSetItem(seas, ep, attrib, value)
    \/ \E value \in WriteValues : DoSetShowData(JStr("seriesName"), value)

SpecWrite == Init /\ [][NextWrite]_vars

(***************************************************************************)
(* Population under both ordering policies: t[1] is populated from the     *)
(* responses of the remote API, with config['dvdorder'] as chosen for the  *)
(* session, and looked up again.                                           *)
(***************************************************************************)
\* The series document
PopDoc == (JStr("id") :> JInt(1)) @@ (JStr("seriesName") :> JStr("Scrubs"))
\* The DVD numbers of an item: the fields are missing, null, or numbers
PopDvd ==
    {EmptyDict,
     (JStr("dvdSeason") :> JNone) @@ (JStr("dvdEpisodeNumber") :> JNone),
     (JStr("dvdSeason") :> JInt(2)) @@ (JStr("dvdEpisodeNumber") :> JInt(1))}
\* The episode items: an aired season that may be null, an aired episode number
PopItems ==
    {(JStr("airedSeason") :> s) @@ (JStr("airedEpisodeNumber") :> JInt(e))
       @@ (JStr("episodeName") :> JStr("My First Day")) @@ dvd :
        s \in {JInt(1), JNone}, e \in 1 .. 2, dvd \in PopDvd}
PopLists == {<< >>} \cup {<<i>> : i \in PopItems}
            \cup {<<i, j>> : i \in PopItems, j \in PopItems}
\* A response with the data, or without it
Response(up, data) == IF up THEN "data" :> data ELSE "Error" :> JStr("Resource not found")

\* t[1], the first lookup of the session: seriesUp and epsUp say whether the
\* series and the episodes responses have data
PopulateShow(seriesUp, epsUp, eps, dvdorder) ==
    /\ 1 \notin DOMAIN shows
    /\ last.op = "init"
    /\ LET r == GetItemInt(Container, corrections, 1, Response(seriesUp, PopDoc),
                           Response(epsUp, eps), dvdorder)
       IN  Stored(r.c, [op |-> "populate", sid |-> 1, seriesUp |-> seriesUp,
                        epsUp |-> epsUp, eps |-> eps, dvdorder |-> dvdorder,
                        fetches |-> r.fetches, err |-> r.err, partial |-> FALSE])

\* t[1] after a population that left an entry for 1
LookupAgain ==
    /\ 1 \in DOMAIN shows
    /\ LET r == GetItemInt(Container, corrections, 1, Response(TRUE, PopDoc),
                           Response(TRUE, last.eps), last.dvdorder)
       IN  Stored(r.c, [last EXCEPT !.op = "again", !.fetches = r.fetches,
                                    !.err = r.err,
                                    !.partial = last.partial \/ last.err # ""])

NextPop ==
    \/ \E seriesUp \in BOOLEAN, epsUp \in BOOLEAN, eps \in PopLists, dvdorder \in BOOLEAN :
          PopulateShow(seriesUp, epsUp, eps, dvdorder)
    \/ LookupAgain

SpecPop == Init /\ [][NextPop]_vars

(***************************************************************************)
(* Concurrent callers: each thread of Callers calls t[key] with an integer *)
(* key on the one session.  The code takes no lock; a thread can be        *)
(* preempted between the test of line 831, the requests of _getShowData    *)
(* and the return of line 833.                                             *)
(***************************************************************************)
\* The identifiers the callers ask for
ConcKeys == {1, 2}

\* The effect of a caller's step on the callers and the history
Stepped(t, pc, key, op, fetches, err) ==
    /\ callers' = [callers EXCEPT ![t] = [pc |-> pc, key |-> key]]
    /\ last' = [op |-> op, caller |-> t, sid |-> key, fetches |-> fetches, err |-> err]
    /\ read' = NoRead

\* The caller enters Tvdb.__getitem__(key)
Call(t, key) ==
    /\ callers[t].pc = "idle"
    /\ Stepped(t, "test", key, "call", 0, "")
    /\ UNCHANGED <<shows, stack, sinceGc, corrections, inserts, recent, resolved, used>>

\* line 831: if key not in self.shows
TestResident(t) ==
    /\ callers[t].pc = "test"
    /\ Stepped(t, IF callers[t].key \notin DOMAIN shows THEN "fetch" ELSE "return",
               callers[t].key, "test", 0, "")
    /\ UNCHANGED <<shows, stack, sinceGc, corrections, inserts, recent, resolved, used>>

\* line 832: _getShowData, from its first request to its last write; up is
\* whether the series response has data.  An exception ends the call.
Fetch(t, up) ==
    /\ callers[t].pc = "fetch"
    /\ LET c == GetShowData(Container, callers[t].key,
                            RemoteSeries(callers[t].key, up),
                            RemoteEpisodes(callers[t].key), FALSE)
       IN  /\ shows' = c.d
           /\ stack' = c.stack
           /\ sinceGc' = c.since
           /\ inserts' = inserts + c.ins
           /\ used' = IF c.ins > 0 THEN Max(used, callers[t].key) ELSE used
           /\ recent' = IF c.ins > 0 THEN TakeLast(Append(recent, callers[t].key), Cap)
                        ELSE recent
           /\ Stepped(t, IF c.err = "" THEN "return" ELSE "idle", callers[t].key,
                      "fetch", 1, c.err)
    /\ UNCHANGED <<corrections, resolved>>

\* line 833: return self.shows[key]
Return(t) ==
    /\ callers[t].pc = "return"
    /\ Stepped(t, "idle", callers[t].key, "return", 0,
               IF callers[t].key \in DOMAIN shows THEN "" ELSE "KeyError")
    /\ UNCHANGED <<shows, stack, sinceGc, corrections, inserts, recent, resolved, used>>

NextConc ==
    \/ \E t \in Callers, key \in ConcKeys : Call(t, key)
    \/ \E t \in Callers : TestResident(t)
    \/ \E t \in Callers, up \in BOOLEAN : Fetch(t, up)
    \/ \E t \in Callers : Return(t)

SpecConc == Init /\ [][NextConc]_vars

(***************************************************************************)
(* The cache container                                                     *)
(***************************************************************************)
\* C1: after an insert into the cache container that ran an eviction sweep, at
\* most 100 catalog entries are resident.
C1_SweepLeavesAtMostCap ==
    last.swept => Cardinality(DOMAIN shows) <= Cap
\* A sweep that evicted: more than Cap inserts were made and Cap entries remain
C1_Witness ==
    last.swept /\ inserts > Cap /\ Cardinality(DOMAIN shows) = Cap

\* C2: after a sweep the resident entries are exactly the (up to) 100 most
\* recently inserted identifiers, the one just inserted included, whatever was
\* read by lookup before the sweep.
C2_SweepKeepsMostRecentlyInserted ==
    last.swept => /\ DOMAIN shows = Range(recent)
                  /\ last.sid \in DOMAIN shows
\* A sweep that evicted the oldest entry
C2_Witness ==
    last.swept /\ inserts > Cap /\ Len(recent) = Cap /\ 1 \notin DOMAIN shows

\* C3: an insert made when no more than 20 time units have elapsed since the last
\* sweep (or since the container was created) evicts nothing and leaves the sweep
\* timestamp unchanged: the resident set grows by exactly the inserted identifier.
C3_InsertInsideWindowOnlyAdds ==
    [][(last'.ins > 0 /\ sinceGc <= Debounce) =>
          /\ ~last'.swept
          /\ sinceGc' = sinceGc
          /\ last'.sid \notin DOMAIN shows
          /\ DOMAIN shows' = DOMAIN shows \cup {last'.sid}
          /\ \A k \in DOMAIN shows : shows'[k] = shows[k]
          /\ stack' = Append(stack, last'.sid)]_vars
\* An insert without a sweep that leaves more than 100 entries resident
C3_Witness ==
    last.ins > 0 /\ ~last.swept /\ Cardinality(DOMAIN shows) > Cap

\* C4: between the operations of a session the identifiers of the insertion-order
\* ledger are the keys of the store, and none occurs twice in the ledger.
C4_LedgerIsStoreKeys ==
    /\ Range(stack) = DOMAIN shows
    /\ Len(stack) = Cardinality(DOMAIN shows)
\* The state after an insert whose sweep evicted an entry
C4_Witness ==
    last.swept /\ last.ins > 0 /\ inserts > Cap /\ Len(stack) = Cap

(***************************************************************************)
(* Lookup                                                                  *)
(***************************************************************************)
\* C5: the population fetch for an identifier is never started while that
\* identifier is resident in the cache.
C5_NoFetchWhileResident ==
    last.fetches > 0 => ~last.resident

\* C6: lookup(name) returns the Catalog-entry of the resolved identifier for every
\* name whose resolution succeeds; it does not fail because the identifier is
\* missing from the cache.
C6_NameLookupReturnsEntry ==
    (last.op = "name" /\ last.rerr = "") => (last.err = "" /\ last.sid \in DOMAIN shows)

\* C7: once resolve(name) has succeeded, a later resolve(name) calls neither the
\* search nor the population fetch and returns the same identifier.
C7_ResolveIsMemoized ==
    [][(last'.op = "name" /\ last'.name \in DOMAIN resolved) =>
          /\ last'.searches = 0
          /\ last'.fetches = 0
          /\ last'.rerr = ""
          /\ last'.sid = resolved[last'.name]]_vars
\* A second resolve of a name: the name was in the corrections and resolved before
C7_Witness ==
    /\ last.op = "name" /\ last.known /\ last.rerr = ""
    /\ last.name \in DOMAIN resolved
    /\ last.searches = 0

\* C18: resolve(name) fails with ShowNotFound when the search reports zero
\* candidates for the name, and then the correction map and the cache are exactly
\* as before the call: no mapping recorded, no entry created, no fetch started.
C18_NoCandidates ==
    [][(last'.op = "name" /\ last'.searches = 1 /\ last'.sid = 0) =>
          /\ last'.err = "tvdb_shownotfound"
          /\ last'.fetches = 0 /\ last'.ins = 0
          /\ corrections' = corrections
          /\ shows' = shows /\ stack' = stack /\ sinceGc' = sinceGc]_vars
\* A search without candidates in a session that holds shows and corrections
C18_Witness ==
    /\ last.op = "name" /\ last.searches = 1 /\ last.sid = 0
    /\ last.name \notin DOMAIN corrections
    /\ DOMAIN corrections # {} /\ DOMAIN shows # {}

\* C21: the correction map only grows: a name mapped to an identifier maps to
\* the same identifier in every later state, whatever lookups and sweeps happen,
\* and each name is written at most once (only while it is not in the map).
C21_CorrectionsOnlyGrow ==
    [][/\ \A n \in DOMAIN corrections :
             n \in DOMAIN corrections' /\ corrections'[n] = corrections[n]
       /\ corrections' # corrections =>
             /\ last'.op = "name" /\ ~last'.known
             /\ DOMAIN corrections' = DOMAIN corrections \cup {last'.name}]_vars
\* A sweep evicted the show of a name and the name is still mapped to it
C21_Witness ==
    /\ last.swept /\ inserts > Cap
    /\ \E n \in DOMAIN corrections : corrections[n] \notin DOMAIN shows

\* C23: resolve(name) for a name not in the correction map records name->id
\* before the population of the identifier starts: when the population fails the
\* mapping stays, and the next lookup(name) skips the search and the population.
C23_RecordedBeforePopulation ==
    [][/\ (last'.op = "name" /\ ~last'.known /\ last'.fetches = 1) =>
             /\ last'.name \in DOMAIN corrections'
             /\ corrections'[last'.name] = last'.sid
       /\ (last'.op = "name" /\ last'.known) =>
             /\ last'.searches = 0 /\ last'.fetches = 0
             /\ last'.sid = corrections[last'.name]]_vars
\* The lookup of a name whose first resolve recorded it and failed to populate:
\* its identifier was never inserted
C23_Witness ==
    /\ last.op = "name" /\ last.known /\ last.searches = 0 /\ last.fetches = 0
    /\ inserts <= Cap /\ last.sid \notin Range(recent)

\* C8: lookup(id) with an integer key: when the identifier is resident no fetch is
\* made, the cache and the correction map are unchanged and the resident entry is
\* returned; when it is absent (never loaded, or evicted by a sweep) population
\* runs exactly once and, when it completes, the populated entry is returned.
C8_LookupById ==
    [][last'.op = "id" =>
          IF last'.sid \in DOMAIN shows
          THEN /\ last'.fetches = 0
               /\ shows' = shows /\ stack' = stack /\ corrections' = corrections
               /\ last'.err = ""
          ELSE /\ last'.fetches = 1
               /\ last'.err \in {"", "AttributeError"}
               /\ last'.err = "" =>
                     /\ last'.sid \in DOMAIN shows'
                     /\ shows'[last'.sid].data[JStr("id")] = JInt(last'.sid)
                     /\ last'.ins = 1]_vars
\* A lookup by identifier that populated an identifier evicted earlier
C8_Witness ==
    /\ last.op = "id" /\ ~last.resident /\ last.fetches = 1 /\ last.err = ""
    /\ last.sid < used /\ last.sid \in DOMAIN shows

(***************************************************************************)
(* The write path                                                          *)
(***************************************************************************)
\* The show, season and episode of the path of a _setItem call exist
HasShow(d, sid) == sid \in DOMAIN d
HasSeason(d, sid, seas) == HasShow(d, sid) /\ seas \in DOMAIN d[sid].seasons
HasEpisode(d, sid, seas, ep) ==
    HasSeason(d, sid, seas) /\ ep \in DOMAIN d[sid].seasons[seas]

\* C11: a set on a path whose Catalog-entry, Group or Record exists replaces none
\* of them: the metadata, the other Groups, the other Records of the Group and
\* the fields set earlier on the Record remain, only the named field is written,
\* and a get with the same tuple returns that Record.
C11_EnsureIsIdempotent ==
    [][last'.op = "setitem" =>
          /\ HasShow(shows, last'.sid) =>
                /\ shows'[last'.sid].data = shows[last'.sid].data
                /\ \A s \in DOMAIN shows[last'.sid].seasons \ {last'.seas} :
                      /\ s \in DOMAIN shows'[last'.sid].seasons
                      /\ shows'[last'.sid].seasons[s] = shows[last'.sid].seasons[s]
          /\ HasSeason(shows, last'.sid, last'.seas) =>
                \A e \in DOMAIN shows[last'.sid].seasons[last'.seas] \ {last'.ep} :
                   /\ e \in DOMAIN shows'[last'.sid].seasons[last'.seas]
                   /\ shows'[last'.sid].seasons[last'.seas][e]
                         = shows[last'.sid].seasons[last'.seas][e]
          /\ HasEpisode(shows, last'.sid, last'.seas, last'.ep) =>
                /\ shows'[last'.sid].seasons[last'.seas][last'.ep]
                      = Put(shows[last'.sid].seasons[last'.seas][last'.ep],
                            last'.attrib, last'.value)
                /\ shows'[last'.sid].keys = shows[last'.sid].keys
          /\ SeasonGetItem(ShowGetItem(shows'[last'.sid], last'.seas).value,
                           last'.ep).value
                = shows'[last'.sid].seasons[last'.seas][last'.ep]]_vars
\* A second set on a Record: the field set earlier is still there
C11_Witness ==
    /\ last.op = "setitem"
    /\ HasEpisode(shows, 1, last.seas, last.ep)
    /\ DOMAIN shows[1].seasons[last.seas][last.ep] = WriteAttribs
    /\ Cardinality(DOMAIN shows[1].seasons) = 2
    /\ JStr("seriesName") \in DOMAIN shows[1].data

(***************************************************************************)
(* Search                                                                  *)
(***************************************************************************)
\* The number written as the int v
Num(v) == CHOOSE n \in 0 .. MaxNum : JInt(n) = v
\* <<season, episode>> a comes before b in ascending season, then episode, order
Before(a, b) ==
    \/ Num(a[1]) < Num(b[1])
    \/ Num(a[1]) = Num(b[1]) /\ Num(a[2]) < Num(b[2])
\* term is a case-insensitive substring of the value of a field of the episode
\* (of the field key when key is given)
TermInField(episode, term, key) ==
    \E f \in DOMAIN episode :
       /\ IsNone(key) \/ f = key
       /\ ~IsNone(episode[f])
       /\ Found(Lower(Text(episode[f])), Lower(Text(term)))

\* C12: Show.search returns its matches in ascending season number and, within a
\* season, ascending episode number, whatever order the episode items arrived in.
C12_SearchAscending ==
    (read.op = "search" /\ read.err = "")
    => \A i \in 1 .. Len(read.value), j \in 1 .. Len(read.value) :
          i < j => Before(read.value[i], read.value[j])

\* C13: Show.search(term, key) returns a Record if and only if the term is a
\* case-insensitive substring of the value of some field of that Record (only of
\* the field named key when key is given), and each Record occurs at most once.
C13_SearchMatchesExactly ==
    (read.op = "search" /\ read.err = "")
    => /\ \A k \in Range(shows[1].keys) :
             k \in Range(read.value)
             <=> TermInField(shows[1].seasons[k[1]][k[2]], read.key[1], read.key[2])
       /\ \A i \in 1 .. Len(read.value), j \in 1 .. Len(read.value) :
             i # j => read.value[i] # read.value[j]

\* C14: search called on a Catalog-entry without a search term fails with a
\* TypeError, whatever Groups and Records the Catalog-entry holds.
C14_SearchWithoutTermFails ==
    (read.op = "search" /\ IsNone(read.key[1])) => read.err = "TypeError"

\* C15: airedOn(date) returns exactly the result of search(date, key="firstAired")
\* when that result is non-empty, and fails with EpisodeNotFound if and only if no
\* Record of the Catalog-entry has a firstAired field matching the date.
C15_AiredOn ==
    read.op = "airedOn"
    => /\ Len(ShowSearch(shows[1], read.key[1], JStr("firstAired")).value) > 0
            => /\ read.err = ""
               /\ read.value = ShowSearch(shows[1], read.key[1], JStr("firstAired")).value
       /\ read.err = "tvdb_episodenotfound"
            <=> ~\E k \in Range(shows[1].keys) :
                   TermInField(shows[1].seasons[k[1]][k[2]], read.key[1],
                               JStr("firstAired"))
       /\ read.err \in {"", "tvdb_episodenotfound"}
\* airedOn failed on a show that holds an Episode, and no firstAired matches
C15_Witness ==
    /\ read.op = "airedOn" /\ read.err = "tvdb_episodenotfound"
    /\ Len(shows[1].keys) > 0

\* C25: in every reachable state each Group of a resident Catalog-entry has its
\* back-reference at that Catalog-entry and each Record of a Group has its
\* back-reference at that Group; a Group belongs to one Catalog-entry and each
\* episode number keys at most one Record of its Group.
C25_BackReferences ==
    \A sid \in DOMAIN shows :
       /\ DOMAIN shows[sid].refs = DOMAIN shows[sid].seasons
       /\ \A seas \in DOMAIN shows[sid].seasons :
             /\ shows[sid].refs[seas].show = sid
             /\ DOMAIN shows[sid].refs[seas].episodes = DOMAIN shows[sid].seasons[seas]
             /\ \A ep \in DOMAIN shows[sid].seasons[seas] :
                   shows[sid].refs[seas].episodes[ep] = <<sid, seas>>
       /\ Range(shows[sid].keys)
             = UNION {{<<seas, ep>> : ep \in DOMAIN shows[sid].seasons[seas]} :
                         seas \in DOMAIN shows[sid].seasons}
       /\ \A i \in 1 .. Len(shows[sid].keys), j \in 1 .. Len(shows[sid].keys) :
             i # j => shows[sid].keys[i] # shows[sid].keys[j]
\* A show with an Episode was evicted and populated again, next to others
C25_Witness ==
    /\ last.fetches = 1 /\ ~last.resident /\ last.sid < used /\ last.err = ""
    /\ last.sid \in DOMAIN shows
    /\ DOMAIN shows[last.sid].seasons # {}
    /\ Cardinality(DOMAIN shows) > 1

(***************************************************************************)
(* Population                                                              *)
(***************************************************************************)
\* The item has both DVD numbers
HasDvd(item) ==
    /\ ~IsNone(Get(item, JStr("dvdSeason")))
    /\ ~IsNone(Get(item, JStr("dvdEpisodeNumber")))
\* The item has both numbers of the active ordering policy
HasNumbers(item, dvdorder) ==
    IF dvdorder THEN HasDvd(item)
    ELSE /\ ~IsNone(Get(item, JStr("airedSeason")))
         /\ ~IsNone(Get(item, JStr("airedEpisodeNumber")))
\* The <<season, episode>> of the item under the active ordering policy
PolicyKey(item, dvdorder) ==
    IF dvdorder THEN <<item[JStr("dvdSeason")], item[JStr("dvdEpisodeNumber")]>>
    ELSE <<item[JStr("airedSeason")], item[JStr("airedEpisodeNumber")]>>
\* The Episodes of the show 1, none when there is no show
PopulatedKeys == IF 1 \in DOMAIN shows THEN Range(shows[1].keys) ELSE {}

\* C16: under the DVD-ordering policy an episode item that lacks both dvdSeason
\* and dvdEpisodeNumber is omitted from the populated hierarchy (no Record is
\* created for it under any number), and the items after it are still populated.
C16_DvdOrderOmitsUnnumbered ==
    (last.op = "populate" /\ last.dvdorder /\ last.seriesUp /\ last.epsUp)
    => PopulatedKeys = {PolicyKey(item, TRUE) :
                           item \in {i \in Range(last.eps) : HasDvd(i)}}

\* C17: an episode item whose season or episode number is null under the active
\* ordering policy is skipped and not surfaced as an error: populate completes
\* successfully and every later item with both numbers is in the hierarchy.
C17_NullNumberIsSkipped ==
    (last.op = "populate" /\ last.seriesUp /\ last.epsUp)
    => /\ last.err = ""
       /\ \A i \in 1 .. Len(last.eps), j \in 1 .. Len(last.eps) :
             (i < j /\ ~HasNumbers(last.eps[i], last.dvdorder)
                    /\ HasNumbers(last.eps[j], last.dvdorder))
             => PolicyKey(last.eps[j], last.dvdorder) \in PopulatedKeys

\* C19: populate fails with the generic fetch error (tvdb_error) whenever the
\* metadata fetch retrieves no document for the identifier, and then no entry
\* for the identifier is created in the cache.
C19_NoDocumentIsFetchError ==
    (last.op = "populate" /\ ~last.seriesUp)
    => (last.err = "tvdb_error" /\ 1 \notin DOMAIN shows)

\* The number of items of eps populated before the first that raises
RECURSIVE Populated(_, _)
Populated(eps, dvdorder) ==
    IF eps = << >> \/ EpisodeNumbers(Head(eps), dvdorder).err # "" THEN 0
    ELSE 1 + Populated(Tail(eps), dvdorder)

\* C20: population is not rolled back on failure: when populate fails after
\* metadata fields or Records were inserted, everything inserted before the
\* failure stays in the cache, the identifier counts as present, and a later
\* lookup returns that partial Catalog-entry without starting another fetch.
C20_NoRollback ==
    [][/\ (last'.op = "populate" /\ last'.err # "" /\ last'.seriesUp) =>
             /\ 1 \in DOMAIN shows'
             /\ \A k \in DOMAIN PopDoc : k \in DOMAIN shows'[1].data
             /\ last'.epsUp =>
                   \A i \in 1 .. Populated(last'.eps, last'.dvdorder) :
                      \E k \in Range(shows'[1].keys) :
                         \A f \in DOMAIN last'.eps[i] :
                            f \in DOMAIN shows'[1].seasons[k[1]][k[2]]
       /\ (last'.op = "again" /\ last'.partial) =>
             /\ last'.fetches = 0
             /\ last'.err = ""
             /\ shows' = shows]_vars
\* A lookup after a population that failed at its second item: the Record of
\* the first item is there
C20_Witness ==
    /\ last.op = "again" /\ last.partial /\ last.fetches = 0
    /\ Len(last.eps) = 2 /\ Populated(last.eps, last.dvdorder) = 1
    /\ Len(shows[1].keys) = 1

(***************************************************************************)
(* Concurrent callers                                                      *)
(***************************************************************************)
\* C22: with concurrent callers on one session at most one population fetch per
\* identifier is in flight at a time: two overlapping lookups of the same
\* unpopulated identifier never both run the population fetch.
C22_OneFetchInFlight ==
    \A t1 \in Callers, t2 \in Callers :
       (t1 # t2 /\ callers[t1].pc = "fetch" /\ callers[t2].pc = "fetch")
       => callers[t1].key # callers[t2].key

(***************************************************************************)
(* The read path                                                           *)
(***************************************************************************)
\* C9: an integer-like key absent from a Catalog-entry's group namespace signals
\* SeasonNotFound, a record key absent from a Group signals EpisodeNotFound, a
\* field absent from a Record signals AttributeNotFound, and a miss of one kind is
\* never reported as another kind.
C9_NotFoundKinds ==
    /\ (read.op = "show" /\ read.key \in {JInt(n) : n \in 0 .. MaxNum}
                                         \cup {JStr(ToString(n)) : n \in 0 .. MaxNum}
        /\ read.key \notin DOMAIN shows[1].seasons)
           => read.err = "tvdb_seasonnotfound"
    /\ (read.op = "season" /\ read.kind # "episode") => read.err = "tvdb_episodenotfound"
    /\ (read.op = "episode" /\ read.kind # "field") => read.err = "tvdb_attributenotfound"
    /\ read.err = "tvdb_seasonnotfound"
           => (read.op = "show" /\ read.key \in {JInt(n) : n \in 0 .. MaxNum}
                                                \cup {JStr(ToString(n)) : n \in 0 .. MaxNum})
    /\ read.err = "tvdb_episodenotfound" => read.op = "season"
    /\ read.err = "tvdb_attributenotfound"
           => \/ read.op = "episode"
              \/ (read.op = "show" /\ read.key \notin {JInt(n) : n \in 0 .. MaxNum}
                                                   \cup {JStr(ToString(n)) : n \in 0 .. MaxNum})
\* A season missed with an integer key on a show that holds another season
C9_Witness ==
    /\ read.op = "show" /\ read.err = "tvdb_seasonnotfound" /\ read.key = JInt(2)
    /\ DOMAIN shows[1].seasons = {JInt(1)}

\* C24: a read that fails with a not-found error on a Catalog-entry, Group or
\* Record creates no node: the cache, the hierarchy and the metadata are the same
\* before and after it, and the cache changes only in a population step.
C24_FailedReadCreatesNothing ==
    [][/\ (read'.op \in {"show", "season", "episode"}
           /\ read'.err \in {"tvdb_seasonnotfound", "tvdb_episodenotfound",
                              "tvdb_attributenotfound"})
          => (shows' = shows /\ stack' = stack /\ corrections' = corrections)
       /\ shows' # shows => (read'.op = "none" /\ last'.fetches = 1)]_vars
\* A read missed an episode of a show that holds a season
C24_Witness ==
    /\ read.op = "season" /\ read.err = "tvdb_episodenotfound"
    /\ DOMAIN shows[1].seasons # {}

\* C10: on a Catalog-entry a non-integer-like key present in the metadata
\* namespace returns the metadata value whatever the group namespace holds, and a
\* non-integer-like key absent from both namespaces signals AttributeNotFound.
C10_MetadataThenGroups ==
    (read.op = "show" /\ read.key \notin {JInt(n) : n \in 0 .. MaxNum}
                                         \cup {JStr(ToString(n)) : n \in 0 .. MaxNum})
    => /\ read.key \in DOMAIN shows[1].data
            => (read.kind = "data" /\ read.err = "" /\ read.value = shows[1].data[read.key])
       /\ (read.key \notin DOMAIN shows[1].data /\ read.key \notin DOMAIN shows[1].seasons)
            => read.err = "tvdb_attributenotfound"
\* A metadata field read from a show that holds two seasons
C10_Witness ==
    /\ read.op = "show" /\ read.key = JStr("seriesName") /\ read.kind = "data"
    /\ Cardinality(DOMAIN shows[1].seasons) = 2

====
